---- MODULE Spec2Model ----
(***************************************************************************)
(* A model of todo/models.py: the Todo entity and the TodoStore (id pool,  *)
(* persistence on every mutation, load at construction).                   *)
(*                                                                         *)
(* Python values are represented as follows.                               *)
(*   str used as an id or a path : a sequence of one-character strings     *)
(*   Optional[x]                 : <<>> for None, <<x>> for a value        *)
(*   a Todo object               : a reference (a key of objs)             *)
(*   Dict[str, Todo]             : a function from id strings to references*)
(*   the heapq list              : a bag of integers with extract-min      *)
(*   an ISO timestamp            : the clock reading it was made from      *)
(*   True, False (as results)    : <<"True">>, <<"False">>                 *)
(***************************************************************************)
EXTENDS Integers, Sequences, FiniteSets, Bags, TLC

VARIABLES
  file,           \* the content of the document at storage_path
  objs,           \* the Todo objects alive in the process: reference -> fields
  todos,          \* TodoStore.todos: id string -> reference
  available_ids,  \* TodoStore.available_ids: the heap of free ids
  created,        \* how many Todo objects the caller has constructed so far
  now,            \* the clock: the next reading of datetime.now()
  last,           \* the last call made: [op, arg, raised, ret, io]
  calls,          \* how many calls the run has made
  other           \* a second process with a TodoStore on the same path, if any

vars == <<file, objs, todos, available_ids, created, now, last, calls, other>>

----------------------------------------------------------------------------
(* Bounds of the model *)

MaxCalls == 5     \* the calls made in one run
MaxCommands == 3  \* the commands run one after the other

(* Program constant: available_ids = list(range(100)) *)
NumIds == 100

----------------------------------------------------------------------------
(* Python values *)

None == <<>>

Some(x) == <<x>>

True == <<"True">>

False == <<"False">>

Digits == <<"0", "1", "2", "3", "4", "5", "6", "7", "8", "9">>

IsDigit(c) == \E d \in 1..10 : Digits[d] = c

DigitVal(c) == (CHOOSE d \in 1..10 : Digits[d] = c) - 1

RECURSIVE Str(_)
(* str(n) for n >= 0 *)
Str(n) == IF n < 10 THEN <<Digits[n + 1]>>
          ELSE Str(n \div 10) \o <<Digits[(n % 10) + 1]>>

(* whether int(s) returns rather than raising ValueError (plain digits) *)
IsInt(s) == Len(s) > 0 /\ \A i \in 1..Len(s) : IsDigit(s[i])

RECURSIVE IntOf(_)
(* int(s), for s with IsInt(s) *)
IntOf(s) == IF Len(s) = 1 THEN DigitVal(s[1])
            ELSE 10 * IntOf(SubSeq(s, 1, Len(s) - 1)) + DigitVal(s[Len(s)])

Range(f) == {f[x] : x \in DOMAIN f}

Restrict(f, S) == [x \in S |-> f[x]]

(* References: to the object _load built for key k, and to the n-th object *)
(* the caller constructed                                                  *)
LoadedRef(k) == <<"L">> \o k

NewRef(n) == <<"N">> \o Str(n)

----------------------------------------------------------------------------
(* heapq on a list of integers *)

Heapify(S) == SetToBag(S)

HeapLen(h) == BagCardinality(h)

HeapMin(h) == CHOOSE m \in BagToSet(h) : \A x \in BagToSet(h) : m <= x

HeapPop(h) == h (-) SetToBag({HeapMin(h)})

(* A slip: the value is pushed twice *)
HeapPush_twice(h, x) == h (+) SetToBag({x}) (+) SetToBag({x})

HeapPush(h, x) == h (+) SetToBag({x})

----------------------------------------------------------------------------
(* class Priority(str, Enum), class Status(str, Enum) *)

Priority == {"HIGH", "MEDIUM", "LOW"}

PriorityValue(p) == CASE p = "HIGH" -> "high"
                      [] p = "MEDIUM" -> "medium"
                      [] p = "LOW" -> "low"

Status == {"PENDING", "COMPLETED"}

StatusValue(s) == CASE s = "PENDING" -> "pending"
                    [] s = "COMPLETED" -> "completed"

(* Priority(v), Status(v): the member whose value is v; ValueError if none *)
IsPriorityValue(v) == \E p \in Priority : PriorityValue(p) = v

(* A slip: every value is read back as the default *)
PriorityOf_default(v) == "MEDIUM"

PriorityOf(v) == CHOOSE p \in Priority : PriorityValue(p) = v

IsStatusValue(v) == \E s \in Status : StatusValue(s) = v

StatusOf(v) == CHOOSE s \in Status : StatusValue(s) = v

----------------------------------------------------------------------------
(* class Todo *)

(* Todo(description, priority, file_path, id) constructed at time t *)
NewTodoObj(description, priority, file_path, id, t) ==
  [description |-> description, priority |-> priority, file_path |-> file_path,
   id |-> id, status |-> "PENDING", created_at |-> t, completed_at |-> None]

(* A slip: a todo already completed keeps its timestamp *)
Todo_mark_complete_once(todo, t) ==
  IF todo.status = "COMPLETED" THEN todo
  ELSE [todo EXCEPT !.status = "COMPLETED", !.completed_at = Some(t)]

Todo_mark_complete(todo, t) ==
  [todo EXCEPT !.status = "COMPLETED", !.completed_at = Some(t)]

(* A slip: the completion time is kept *)
Todo_mark_pending_keeps_time(todo) == [todo EXCEPT !.status = "PENDING"]

Todo_mark_pending(todo) ==
  [todo EXCEPT !.status = "PENDING", !.completed_at = None]

(* to_dict, as json.dump writes it: an enum member is written as its value *)
to_dict(todo) ==
  [todo EXCEPT !.priority = PriorityValue(todo.priority),
               !.status = StatusValue(todo.status)]

(* whether from_dict(data) returns rather than raising ValueError *)
from_dict_ok(data) == IsPriorityValue(data.priority) /\ IsStatusValue(data.status)

(* A slip: completed_at is not read back *)
from_dict_drops_completed_at(data) ==
  [data EXCEPT !.priority = PriorityOf(data.priority),
               !.status = StatusOf(data.status),
               !.completed_at = None]

from_dict(data) ==
  [data EXCEPT !.priority = PriorityOf(data.priority),
               !.status = StatusOf(data.status)]

----------------------------------------------------------------------------
(* The storage file *)

(* No file; a file of size 0; text json.load rejects; a JSON object *)
MissingFile == [kind |-> "missing", data |-> <<>>]

EmptyFile == [kind |-> "empty", data |-> <<>>]

MalformedFile == [kind |-> "malformed", data |-> <<>>]

Document(data) == [kind |-> "doc", data |-> data]

----------------------------------------------------------------------------
(* class TodoStore *)

(* A slip: the ValueError of from_dict is caught like a JSON error *)
TodoStore_init_catches_ValueError(f) ==
  LET all == Heapify(0..(NumIds - 1))
      fresh == [todos |-> <<>>, objs |-> <<>>, available_ids |-> all, raised |-> ""]
  IN IF f.kind \in {"missing", "empty", "malformed"} THEN fresh
     ELSE IF \E k \in DOMAIN f.data : ~from_dict_ok(f.data[k]) \/ ~IsInt(k)
       THEN fresh
     ELSE LET used_ids == {IntOf(k) : k \in DOMAIN f.data}
          IN [todos |-> [k \in DOMAIN f.data |-> LoadedRef(k)],
              objs |-> [r \in {LoadedRef(k) : k \in DOMAIN f.data} |->
                          from_dict(f.data[Tail(r)])],
              available_ids |-> Heapify({i \in 0..(NumIds - 1) : i \notin used_ids}),
              raised |-> ""]

(* The state __init__ leaves: [todos, objs, available_ids, raised].        *)
(* raised is the exception that escapes the constructor, "" if none.       *)
TodoStore_init(f) ==
  LET all == Heapify(0..(NumIds - 1))
      fresh == [todos |-> <<>>, objs |-> <<>>, available_ids |-> all, raised |-> ""]
  IN IF f.kind \in {"missing", "empty"} THEN fresh
     ELSE IF f.kind = "malformed" THEN fresh     \* JSONDecodeError is caught
     ELSE IF \E k \in DOMAIN f.data : ~from_dict_ok(f.data[k])
       THEN [fresh EXCEPT !.raised = "ValueError"]  \* raised in the comprehension
     ELSE LET os == [r \in {LoadedRef(k) : k \in DOMAIN f.data} |->
                       from_dict(f.data[Tail(r)])]
              ts == [k \in DOMAIN f.data |-> LoadedRef(k)]
          IN IF \E k \in DOMAIN f.data : ~IsInt(k)
               THEN [todos |-> ts, objs |-> os, available_ids |-> all,
                     raised |-> "ValueError"]       \* raised by int(todo_id)
               ELSE LET used_ids == {IntOf(k) : k \in DOMAIN f.data}
                    IN [todos |-> ts, objs |-> os,
                        available_ids |->
                          Heapify({i \in 0..(NumIds - 1) : i \notin used_ids}),
                        raised |-> ""]

(* What the file holds after _save attempted with outcome io *)
IOOutcomes == {"ok", "open_fails", "write_fails_empty", "write_fails_partial"}

(* A slip: the entries of the document are kept beside the new ones *)
TodoStore_save_merges(io, f, ts, os) ==
  LET data == [k \in DOMAIN ts |-> to_dict(os[ts[k]])]
  IN IF f.kind = "doc" THEN Document(data @@ f.data) ELSE Document(data)

TodoStore_save(io, f, ts, os) ==
  CASE io = "ok" -> Document([k \in DOMAIN ts |-> to_dict(os[ts[k]])])
    [] io = "open_fails" -> f
    [] io = "write_fails_empty" -> EmptyFile
    [] io = "write_fails_partial" -> MalformedFile

(* The store exists unless an exception escaped its constructor *)
StoreExists == ~(last.op = "__init__" /\ last.raised # "")

(* A call: its name, its argument (a reference or an id), the exception it  *)
(* raised ("" if none), what it returned, and the outcome of the _save it   *)
(* made ("none" if it made none)                                            *)
Call(op, arg, raised, ret, io) ==
  [op |-> op, arg |-> arg, raised |-> raised, ret |-> ret, io |-> io]

(* The objects some reference still reaches: those the caller constructed   *)
(* in this process and those the store holds                                *)
Reachable(os, ts) ==
  LET held == Range(ts)
  IN Restrict(os, {r \in DOMAIN os : r[1] = "N" \/ r \in held})

(* self.todos[k] = r; del self.todos[k] *)
set_item(ts, k, r) == (k :> r) @@ ts

(* A slip: nothing is deleted *)
del_item_keeps(ts, k) == ts

del_item(ts, k) == Restrict(ts, DOMAIN ts \ {k})

get(todo_id) == IF todo_id \in DOMAIN todos THEN Some(todos[todo_id]) ELSE None

(* self.todos.get(todo_id) in a given dict *)
get_in(ts, todo_id) == IF todo_id \in DOMAIN ts THEN Some(ts[todo_id]) ELSE None

----------------------------------------------------------------------------
(* The inputs of the model *)

(* Arguments of Todo(...): the defaults (the id is "0"), a todo with an id  *)
(* the caller chose, and one with an id no store allocates and the path ""  *)
DefaultTodo ==
  [description |-> "A", priority |-> "MEDIUM", file_path |-> None, id |-> <<"0">>]

TodoInputs ==
  { DefaultTodo,
    [description |-> "B", priority |-> "HIGH", file_path |-> Some(<<"a", "b">>),
     id |-> <<"1">>],
    [description |-> "C", priority |-> "LOW", file_path |-> Some(<<>>),
     id |-> <<"x">>] }

(* The ids callers pass: "1", and "01", which no store allocates *)
IdInputs == {Str(1), <<"0", "1">>}

(* The todo an earlier process stored under id i *)
StoredTodo(i) ==
  IF i = 1 THEN Todo_mark_complete(NewTodoObj("A", "MEDIUM", None, Str(i), 0), 0)
  ELSE NewTodoObj("A", "MEDIUM", None, Str(i), 0)

(* The document an earlier process wrote with ids 0..n-1 live *)
StoredDocument(n) ==
  Document([k \in {Str(i) : i \in 0..(n - 1)} |-> to_dict(StoredTodo(IntOf(k)))])

(* The files a store finds: none, one a failed write left, one it wrote *)
InitFiles == {MissingFile, EmptyFile, MalformedFile, StoredDocument(3)}

(* The references the caller passes: to the objects it constructed *)
CallerRefs == {r \in DOMAIN objs : r[1] = "N"}

----------------------------------------------------------------------------
(* Construction *)

InitFrom(files) ==
  \E f \in files :
    LET s == TodoStore_init(f)
    IN /\ file = f
       /\ objs = s.objs
       /\ todos = s.todos
       /\ available_ids = s.available_ids
       /\ created = 0
       /\ calls = 0
       /\ now = 1
       /\ last = Call("__init__", None, s.raised, None, "none")
       /\ other = None

Init == InitFrom(InitFiles)

(* Every call counts towards the length of the run *)
Tally == calls < MaxCalls /\ calls' = calls + 1

(* A slip: the pool of the process before is taken over *)
RestartKeepsPool ==
  /\ Tally
  /\ UNCHANGED other
  /\ LET s == TodoStore_init(file)
     IN /\ objs' = s.objs
        /\ todos' = s.todos
        /\ last' = Call("__init__", None, s.raised, None, "none")
  /\ UNCHANGED <<file, available_ids, created, now>>

(* A slip: the constructor writes what it loaded *)
RestartRepairsFile ==
  /\ Tally
  /\ UNCHANGED other
  /\ LET s == TodoStore_init(file)
     IN /\ objs' = s.objs
        /\ todos' = s.todos
        /\ available_ids' = s.available_ids
        /\ file' = TodoStore_save("ok", file, s.todos, s.objs)
        /\ last' = Call("__init__", None, s.raised, None, "none")
  /\ UNCHANGED <<created, now>>

(* The process ends and a new one constructs TodoStore(storage_path) *)
Restart ==
  /\ Tally
  /\ UNCHANGED other
  /\ LET s == TodoStore_init(file)
     IN /\ objs' = s.objs
        /\ todos' = s.todos
        /\ available_ids' = s.available_ids
        /\ last' = Call("__init__", None, s.raised, None, "none")
  /\ UNCHANGED <<file, created, now>>

----------------------------------------------------------------------------
(* The caller's own operations on Todo objects *)

(* todo = Todo(...) *)
NewTodo(inp) ==
  /\ Tally
  /\ UNCHANGED other
  /\ StoreExists
  /\ LET r == NewRef(created + 1)
     IN /\ objs' = (r :> NewTodoObj(inp.description, inp.priority,
                                    inp.file_path, inp.id, now)) @@ objs
        /\ last' = Call("Todo", None, "", Some(r), "none")
  /\ created' = created + 1
  /\ now' = now + 1
  /\ UNCHANGED <<file, todos, available_ids>>

(* todo.mark_complete() on an object the caller holds *)
TodoMarkComplete(r) ==
  /\ Tally
  /\ UNCHANGED other
  /\ StoreExists
  /\ r \in CallerRefs
  /\ objs' = [objs EXCEPT ![r] = Todo_mark_complete(objs[r], now)]
  /\ now' = now + 1
  /\ last' = Call("Todo.mark_complete", Some(r), "", None, "none")
  /\ UNCHANGED <<file, todos, available_ids, created>>

(* todo.mark_pending() on an object the caller holds *)
TodoMarkPending(r) ==
  /\ Tally
  /\ UNCHANGED other
  /\ StoreExists
  /\ r \in CallerRefs
  /\ objs' = [objs EXCEPT ![r] = Todo_mark_pending(objs[r])]
  /\ last' = Call("Todo.mark_pending", Some(r), "", None, "none")
  /\ UNCHANGED <<file, todos, available_ids, created, now>>

----------------------------------------------------------------------------
(* TodoStore.add *)

add_full(h) == HeapLen(h) = 0

(* A slip: the highest free id instead of the lowest *)
add_next_id_largest(h) ==
  Str(CHOOSE m \in BagToSet(h) : \A x \in BagToSet(h) : m >= x)

add_next_id(h) == Str(HeapMin(h))

(* A slip: the id is assigned before the capacity check *)
AddRaisesAfterAssign(r) ==
  /\ last' = Call("add", Some(r), "ValueError", None, "none")
  /\ objs' = [objs EXCEPT ![r].id = Str(NumIds)]
  /\ UNCHANGED <<file, todos, available_ids>>

AddRaises(r) ==
  /\ last' = Call("add", Some(r), "ValueError", None, "none")
  /\ UNCHANGED <<file, objs, todos, available_ids>>

(* A slip: a failed write undoes the insertion *)
AddStoresRollsBack(r, io) ==
  LET next_id == add_next_id(available_ids)
      os == [objs EXCEPT ![r].id = next_id]
      ts == set_item(todos, next_id, r)
  IN IF io = "ok"
       THEN /\ available_ids' = HeapPop(available_ids)
            /\ todos' = ts
            /\ objs' = Reachable(os, ts)
            /\ file' = TodoStore_save(io, file, ts, os)
            /\ last' = Call("add", Some(r), "", Some(r), io)
       ELSE /\ file' = TodoStore_save(io, file, ts, os)
            /\ last' = Call("add", Some(r), "", Some(r), io)
            /\ UNCHANGED <<available_ids, todos, objs>>

AddStores(r, io) ==
  LET next_id == add_next_id(available_ids)
      os == [objs EXCEPT ![r].id = next_id]
      ts == set_item(todos, next_id, r)
  IN /\ available_ids' = HeapPop(available_ids)
     /\ todos' = ts
     /\ objs' = Reachable(os, ts)
     /\ file' = TodoStore_save(io, file, ts, os)
     /\ last' = Call("add", Some(r), "", Some(r), io)

Add(r, io) ==
  /\ Tally
  /\ UNCHANGED other
  /\ StoreExists
  /\ r \in CallerRefs
  /\ IF add_full(available_ids) THEN AddRaises(r) ELSE AddStores(r, io)
  /\ UNCHANGED <<created, now>>

----------------------------------------------------------------------------
(* TodoStore.update *)

(* A slip: no check that the id is known *)
update_found_always(ts, todo_id) == TRUE

update_found(ts, todo_id) == todo_id \in DOMAIN ts

UpdateRaises(r) ==
  /\ last' = Call("update", Some(r), "ValueError", None, "none")
  /\ UNCHANGED <<file, objs, todos, available_ids>>

(* A slip: the entry is replaced and not saved *)
UpdateStoresNoSave(r, io) ==
  LET ts == set_item(todos, objs[r].id, r)
  IN /\ todos' = ts
     /\ objs' = Reachable(objs, ts)
     /\ last' = Call("update", Some(r), "", Some(r), "none")
     /\ UNCHANGED <<file, available_ids>>

UpdateStores(r, io) ==
  LET ts == set_item(todos, objs[r].id, r)
  IN /\ todos' = ts
     /\ objs' = Reachable(objs, ts)
     /\ file' = TodoStore_save(io, file, ts, objs)
     /\ last' = Call("update", Some(r), "", Some(r), io)
     /\ UNCHANGED available_ids

Update(r, io) ==
  /\ Tally
  /\ UNCHANGED other
  /\ StoreExists
  /\ r \in CallerRefs
  /\ IF update_found(todos, objs[r].id) THEN UpdateStores(r, io) ELSE UpdateRaises(r)
  /\ UNCHANGED <<created, now>>

----------------------------------------------------------------------------
(* TodoStore.remove *)

(* A slip: the id is not returned to the pool *)
remove_release_forgets(h, todo_id) == h

remove_release(h, todo_id) == HeapPush(h, IntOf(todo_id))

(* A slip: the id is pushed whether or not it was stored *)
RemoveAbsentReleases(todo_id) ==
  /\ last' = Call("remove", Some(todo_id), "", Some(False), "none")
  /\ available_ids' = IF IsInt(todo_id) THEN HeapPush(available_ids, IntOf(todo_id))
                                         ELSE available_ids
  /\ UNCHANGED <<file, objs, todos>>

RemoveAbsent(todo_id) ==
  /\ last' = Call("remove", Some(todo_id), "", Some(False), "none")
  /\ UNCHANGED <<file, objs, todos, available_ids>>

RemoveFound(todo_id, io) ==
  LET ts == del_item(todos, todo_id)
  IN /\ todos' = ts
     /\ objs' = Reachable(objs, ts)
     /\ IF IsInt(todo_id)
          THEN /\ available_ids' = remove_release(available_ids, todo_id)
               /\ file' = TodoStore_save(io, file, ts, objs)
               /\ last' = Call("remove", Some(todo_id), "", Some(True), io)
          ELSE \* int(todo_id) raises after the entry is deleted
               /\ last' = Call("remove", Some(todo_id), "ValueError", None, "none")
               /\ UNCHANGED <<file, available_ids>>

Remove(todo_id, io) ==
  /\ Tally
  /\ UNCHANGED other
  /\ StoreExists
  /\ IF todo_id \in DOMAIN todos THEN RemoveFound(todo_id, io)
                                ELSE RemoveAbsent(todo_id)
  /\ UNCHANGED <<created, now>>

----------------------------------------------------------------------------
(* TodoStore.mark_complete, TodoStore.mark_pending *)

(* A slip: self.todos[todo_id] instead of self.get(todo_id) *)
MarkAbsentRaises(op, todo_id) ==
  /\ last' = Call(op, Some(todo_id), "KeyError", None, "none")
  /\ UNCHANGED <<file, objs, now>>

MarkAbsent(op, todo_id) ==
  /\ last' = Call(op, Some(todo_id), "", None, "none")
  /\ UNCHANGED <<file, objs, now>>

MarkCompleteFound(todo_id, io) ==
  LET r == todos[todo_id]
      os == [objs EXCEPT ![r] = Todo_mark_complete(objs[r], now)]
  IN /\ objs' = os
     /\ now' = now + 1
     /\ file' = TodoStore_save(io, file, todos, os)
     /\ last' = Call("mark_complete", Some(todo_id), "", Some(r), io)

MarkComplete(todo_id, io) ==
  /\ Tally
  /\ UNCHANGED other
  /\ StoreExists
  /\ IF get(todo_id) # None THEN MarkCompleteFound(todo_id, io)
                            ELSE MarkAbsent("mark_complete", todo_id)
  /\ UNCHANGED <<todos, available_ids, created>>

(* A slip: the transition is made and not saved *)
MarkPendingFoundNoSave(todo_id, io) ==
  LET r == todos[todo_id]
  IN /\ objs' = [objs EXCEPT ![r] = Todo_mark_pending(objs[r])]
     /\ last' = Call("mark_pending", Some(todo_id), "", Some(r), "none")
     /\ UNCHANGED <<file, now>>

MarkPendingFound(todo_id, io) ==
  LET r == todos[todo_id]
      os == [objs EXCEPT ![r] = Todo_mark_pending(objs[r])]
  IN /\ objs' = os
     /\ file' = TodoStore_save(io, file, todos, os)
     /\ last' = Call("mark_pending", Some(todo_id), "", Some(r), io)
     /\ UNCHANGED now

MarkPending(todo_id, io) ==
  /\ Tally
  /\ UNCHANGED other
  /\ StoreExists
  /\ IF get(todo_id) # None THEN MarkPendingFound(todo_id, io)
                            ELSE MarkAbsent("mark_pending", todo_id)
  /\ UNCHANGED <<todos, available_ids, created>>

----------------------------------------------------------------------------
(* TodoStore.get *)

Get(todo_id) ==
  /\ Tally
  /\ UNCHANGED other
  /\ StoreExists
  /\ last' = Call("get", Some(todo_id), "", get(todo_id), "none")
  /\ UNCHANGED <<file, objs, todos, available_ids, created, now>>

----------------------------------------------------------------------------
(* The caller's edit of a field: todo.priority = Priority(priority) *)

(* A slip: the edit builds the todo anew *)
TodoSetPriorityRecreates(r, p) ==
  /\ Tally
  /\ UNCHANGED other
  /\ StoreExists
  /\ r \in CallerRefs
  /\ objs' = [objs EXCEPT ![r] = NewTodoObj(objs[r].description, p,
                                            objs[r].file_path, objs[r].id, now)]
  /\ now' = now + 1
  /\ last' = Call("Todo.priority", Some(r), "", None, "none")
  /\ UNCHANGED <<file, todos, available_ids, created>>

TodoSetPriority(r, p) ==
  /\ Tally
  /\ UNCHANGED other
  /\ StoreExists
  /\ r \in CallerRefs
  /\ objs' = [objs EXCEPT ![r].priority = p]
  /\ last' = Call("Todo.priority", Some(r), "", None, "none")
  /\ UNCHANGED <<file, todos, available_ids, created, now>>

----------------------------------------------------------------------------
(* TodoStore.get_all, TodoStore.filter *)

(* A list of Todo objects is represented by the bag of its elements: the   *)
(* order of the dict is not modelled.                                      *)
get_all(ts) == [r \in Range(ts) |-> Cardinality({k \in DOMAIN ts : ts[k] = r})]

(* [todo for todo in filtered if ...]: the elements in S, as often as before *)
Keep(list, S) == [r \in (DOMAIN list \cap S) |-> list[r]]

(* p in s, for strings *)
IsSubstring(p, s) ==
  \E i \in 0..(Len(s) - Len(p)) : SubSeq(s, i + 1, i + Len(p)) = p

(* The truth value of an Optional[str]: None and "" are false *)
Truthy(x) == x # None /\ x[1] # <<>>

(* A slip: the comparison is dropped *)
status_matches_any(todo, status) == TRUE

status_matches(todo, status) == todo.status = status

file_path_matches(todo, file_path) ==
  Truthy(todo.file_path) /\ IsSubstring(file_path, todo.file_path[1])

(* A slip: the second criterion starts again from all the todos *)
filter_restarts(ts, os, status, file_path) ==
  LET all == get_all(ts)
  IN IF file_path # None
       THEN Keep(all, {r \in DOMAIN all : file_path_matches(os[r], file_path[1])})
     ELSE IF status # None
       THEN Keep(all, {r \in DOMAIN all : status_matches(os[r], status[1])})
     ELSE all

filter(ts, os, status, file_path) ==
  LET all == get_all(ts)
      by_status ==
        IF status # None
          THEN Keep(all, {r \in DOMAIN all : status_matches(os[r], status[1])})
          ELSE all
  IN IF file_path # None
       THEN Keep(by_status,
                 {r \in DOMAIN by_status : file_path_matches(os[r], file_path[1])})
       ELSE by_status

GetAll ==
  /\ Tally
  /\ UNCHANGED other
  /\ StoreExists
  /\ last' = Call("get_all", None, "", Some(get_all(todos)), "none")
  /\ UNCHANGED <<file, objs, todos, available_ids, created, now>>

(* A slip: the read persists the collection *)
FilterSaves(status, file_path) ==
  /\ Tally
  /\ UNCHANGED other
  /\ StoreExists
  /\ last' = Call("filter", Some([status |-> status, file_path |-> file_path]),
                  "", Some(filter(todos, objs, status, file_path)), "none")
  /\ file' = TodoStore_save("ok", file, todos, objs)
  /\ UNCHANGED <<objs, todos, available_ids, created, now>>

Filter(status, file_path) ==
  /\ Tally
  /\ UNCHANGED other
  /\ StoreExists
  /\ last' = Call("filter", Some([status |-> status, file_path |-> file_path]),
                  "", Some(filter(todos, objs, status, file_path)), "none")
  /\ UNCHANGED <<file, objs, todos, available_ids, created, now>>

----------------------------------------------------------------------------
(* todo/cli.py: the module-level store and what the commands call on it *)

(* store = TodoStore() when the module is imported, at time t: the state   *)
(* of the store, the file, the clock, the mutating calls made so far and   *)
(* the exception raised, if any                                            *)
StoreOf(f, t) ==
  LET s == TodoStore_init(f)
  IN [todos |-> s.todos, objs |-> s.objs, available_ids |-> s.available_ids,
      file |-> f, now |-> t, log |-> <<>>, raised |-> s.raised]

(* What the file holds under an id: the status written, or nothing *)
InFile(f, todo_id) ==
  IF f.kind = "doc" /\ todo_id \in DOMAIN f.data
    THEN f.data[todo_id].status ELSE "absent"

(* A mutating call has returned: the call, its argument's id and what the  *)
(* file holds under that id now                                            *)
Logged(S, op, arg) ==
  [S EXCEPT !.log = Append(@, <<op, arg, InFile(S.file, arg)>>)]

(* self._save(), the write succeeding *)
Saved(S) == [S EXCEPT !.file = TodoStore_save("ok", S.file, S.todos, S.objs)]

(* store.mark_complete(todo_id) *)
store_mark_complete(S, todo_id) ==
  Logged(IF get_in(S.todos, todo_id) # None
           THEN Saved([S EXCEPT !.objs[S.todos[todo_id]] = Todo_mark_complete(@, S.now),
                                !.now = @ + 1])
           ELSE S,
         "mark_complete", todo_id)

(* store.mark_pending(todo_id) *)
store_mark_pending(S, todo_id) ==
  Logged(IF get_in(S.todos, todo_id) # None
           THEN Saved([S EXCEPT !.objs[S.todos[todo_id]] = Todo_mark_pending(@)])
           ELSE S,
         "mark_pending", todo_id)

(* store.update(todo) *)
store_update(S, r) ==
  Logged(IF update_found(S.todos, S.objs[r].id)
           THEN Saved([S EXCEPT !.todos = set_item(@, S.objs[r].id, r)])
           ELSE [S EXCEPT !.raised = "ValueError"],
         "update", S.objs[r].id)

(* store.remove(todo_id) *)
store_remove(S, todo_id) ==
  Logged(IF todo_id \in DOMAIN S.todos
           THEN Saved([S EXCEPT !.todos = del_item(@, todo_id),
                                !.available_ids = remove_release(@, todo_id)])
           ELSE S,
         "remove", todo_id)

(* The sequences a list may be: the dict keeps an order this model does    *)
(* not, so a loop over a list runs in any order of its elements            *)
Orders(list) ==
  LET n == BagCardinality(list)
  IN {q \in [1..n -> DOMAIN list] :
        \A r \in DOMAIN list : Cardinality({i \in 1..n : q[i] = r}) = list[r]}

(* The list a command builds only when a flag asks for it *)
Listed(flag, list) == IF flag THEN Orders(list) ELSE {<<>>}

(* One more command has been run *)
Command == calls < MaxCommands /\ calls' = calls + 1

(* What a command leaves: the store, the exit code, the number it reports  *)
(* and the ids it reports as not found                                     *)
Outcome(S, exit, count, not_found) ==
  [store |-> S, exit |-> exit, count |-> count, not_found |-> not_found]

----------------------------------------------------------------------------
(* The commands c and p *)

(* for todo_id in todo_ids: todo = store.mark_...(todo_id); found or not *)
RECURSIVE mark_each(_, _, _, _, _)
mark_each(S, op, todo_ids, found, not_found) ==
  IF todo_ids = <<>> THEN [store |-> S, found |-> found, not_found |-> not_found]
  ELSE LET todo_id == Head(todo_ids)
           todo == get_in(S.todos, todo_id)
           S2 == IF op = "mark_complete" THEN store_mark_complete(S, todo_id)
                                         ELSE store_mark_pending(S, todo_id)
       IN IF todo # None
            THEN mark_each(S2, op, Tail(todo_ids), Append(found, todo[1]), not_found)
            ELSE mark_each(S2, op, Tail(todo_ids), found, Append(not_found, todo_id))

(* A slip: any id that is not found makes the command fail *)
mark_command_fails_on_any_missing(S, op, todo_ids, all, listed) ==
  IF all
    THEN IF listed = <<>> THEN Outcome(S, 0, 0, <<>>)
         ELSE LET ids == [i \in 1..Len(listed) |-> S.objs[listed[i]].id]
                  m == mark_each(S, op, ids, <<>>, <<>>)
              IN Outcome(m.store, 0, Len(listed), <<>>)
  ELSE IF todo_ids = <<>> THEN Outcome(S, 0, 0, <<>>)
  ELSE LET m == mark_each(S, op, todo_ids, <<>>, <<>>)
       IN Outcome(m.store, IF m.not_found # <<>> THEN 1 ELSE 0,
                  Len(m.found), m.not_found)

(* The body of complete (op = "mark_complete", the PENDING todos listed)   *)
(* and of pending (op = "mark_pending", the COMPLETED todos listed)        *)
mark_command(S, op, todo_ids, all, listed) ==
  IF all
    THEN IF listed = <<>> THEN Outcome(S, 0, 0, <<>>)
         ELSE LET ids == [i \in 1..Len(listed) |-> S.objs[listed[i]].id]
                  m == mark_each(S, op, ids, <<>>, <<>>)
              IN Outcome(m.store, 0, Len(listed), <<>>)
  ELSE IF todo_ids = <<>> THEN Outcome(S, 0, 0, <<>>)
  ELSE LET m == mark_each(S, op, todo_ids, <<>>, <<>>)
       IN Outcome(m.store,
                  IF m.not_found # <<>> /\ m.found = <<>> THEN 1 ELSE 0,
                  Len(m.found), m.not_found)

(* The process of one command ends: what it left in memory and in the file *)
Exit(command, arg, out) ==
  /\ todos' = out.store.todos
  /\ objs' = Restrict(out.store.objs, Range(out.store.todos))
  /\ available_ids' = out.store.available_ids
  /\ file' = out.store.file
  /\ now' = out.store.now
  /\ last' = Call(command, Some(arg), "",
                  Some([exit |-> out.exit, count |-> out.count,
                        not_found |-> out.not_found, log |-> out.store.log]),
                  IF out.store.file = file THEN "none" ELSE "ok")
  /\ UNCHANGED <<created, other>>

(* todo c [todo_ids] [--all] *)
complete(S, todo_ids, all) ==
  /\ Command
  /\ \E listed \in Listed(all, filter(S.todos, S.objs, Some("PENDING"), None)) :
       Exit("c", [todo_ids |-> todo_ids, all |-> all],
            mark_command(S, "mark_complete", todo_ids, all, listed))

(* A slip: p --all lists the PENDING todos, as c --all does *)
pending_lists_pending(S, todo_ids, all) ==
  /\ Command
  /\ \E listed \in Listed(all, filter(S.todos, S.objs, Some("PENDING"), None)) :
       Exit("p", [todo_ids |-> todo_ids, all |-> all],
            mark_command(S, "mark_pending", todo_ids, all, listed))

(* todo p [todo_ids] [--all] *)
pending(S, todo_ids, all) ==
  /\ Command
  /\ \E listed \in Listed(all, filter(S.todos, S.objs, Some("COMPLETED"), None)) :
       Exit("p", [todo_ids |-> todo_ids, all |-> all],
            mark_command(S, "mark_pending", todo_ids, all, listed))

----------------------------------------------------------------------------
(* The command e *)

(* for todo_id in todo_ids: todo = store.get(todo_id); the todos found and *)
(* the ids not found, each in the order given                              *)
collect(S, todo_ids) ==
  LET Found(id) == get_in(S.todos, id) # None
      Missing(id) == get_in(S.todos, id) = None
      ids == SelectSeq(todo_ids, Found)
  IN [found |-> [i \in 1..Len(ids) |-> S.todos[ids[i]]],
      not_found |-> SelectSeq(todo_ids, Missing)]

(* if todo.status != Status.COMPLETED: todo.mark_complete();               *)
(* store.update(todo)                                                      *)
complete_first(S, r) ==
  IF S.objs[r].status # "COMPLETED"
    THEN store_update([S EXCEPT !.objs[r] = Todo_mark_complete(@, S.now),
                                !.now = @ + 1], r)
    ELSE S

(* A slip: the todo is removed as it is, without the update *)
erase_each_as_it_is(S, listed) ==
  LET RECURSIVE go(_, _)
      go(T, l) == IF l = <<>> THEN T
                  ELSE go(store_remove(T, T.objs[Head(l)].id), Tail(l))
  IN go(S, listed)

(* The loop of the first case: each todo completed first, then removed; an *)
(* exception ends the loop                                                 *)
RECURSIVE erase_each(_, _)
erase_each(S, listed) ==
  IF listed = <<>> \/ S.raised # "" THEN S
  ELSE LET S1 == complete_first(S, Head(listed))
           S2 == IF S1.raised # "" THEN S1
                 ELSE store_remove(S1, S1.objs[Head(listed)].id)
       IN erase_each(S2, Tail(listed))

(* The first loop of the second case *)
RECURSIVE complete_each(_, _)
complete_each(S, listed) ==
  IF listed = <<>> \/ S.raised # "" THEN S
  ELSE complete_each(complete_first(S, Head(listed)), Tail(listed))

(* The second loop of the second case *)
RECURSIVE remove_each(_, _)
remove_each(S, listed) ==
  IF listed = <<>> THEN S
  ELSE remove_each(store_remove(S, S.objs[Head(listed)].id), Tail(listed))

(* except Exception: exit code 1, with what the store was left as *)
Caught(S) == Outcome(S, 1, 0, <<>>)

(* click.confirm("Proceed?"): yes, no, or no answer at all (Abort) *)
Answers == {"y", "n", "abort"}

(* A slip: the answer is not looked at *)
declined_never(force, answer) == FALSE

(* if not force: confirm = click.confirm("Proceed?"); if not confirm *)
declined(force, answer) == ~force /\ answer = "n"

(* The body of erase; listed is the list the flags select, answer what     *)
(* click.confirm gets when it asks                                         *)
erase_command(S, todo_ids, flags, force, answer, listed) ==
  IF todo_ids # <<>>
    THEN LET c == collect(S, todo_ids)
         IN IF c.not_found # <<>> /\ c.found = <<>> THEN Outcome(S, 1, 0, c.not_found)
            ELSE IF declined(force, answer) /\ c.found # <<>>
              THEN Outcome(S, 0, 0, c.not_found)
            ELSE IF ~force /\ c.found # <<>> /\ answer = "abort" THEN Caught(S)
            ELSE LET E == erase_each(S, c.found)
                 IN IF E.raised # "" THEN Caught(E)
                    ELSE Outcome(E, 0, Len(c.found), c.not_found)
  ELSE IF flags = {} THEN Outcome(S, 0, 0, <<>>)
  ELSE IF listed = <<>> THEN Outcome(S, 0, 0, <<>>)
  ELSE IF declined(force, answer) THEN Outcome(S, 0, 0, <<>>)
  ELSE IF ~force /\ answer = "abort" THEN Caught(S)
  ELSE LET C == complete_each(S, listed)
       IN IF C.raised # "" THEN Caught(C)
          ELSE Outcome(remove_each(C, listed), 0, Len(listed), <<>>)

(* A slip: --pending selects what --all does *)
selected_pending_is_all(S, flags) ==
  IF "all" \in flags THEN get_all(S.todos)
  ELSE IF "completed" \in flags THEN filter(S.todos, S.objs, Some("COMPLETED"), None)
  ELSE IF "pending" \in flags THEN get_all(S.todos)
  ELSE EmptyBag

(* if all: store.get_all() elif completed: filter(COMPLETED) elif pending: *)
(* filter(PENDING)                                                         *)
selected(S, flags) ==
  IF "all" \in flags THEN get_all(S.todos)
  ELSE IF "completed" \in flags THEN filter(S.todos, S.objs, Some("COMPLETED"), None)
  ELSE IF "pending" \in flags THEN filter(S.todos, S.objs, Some("PENDING"), None)
  ELSE EmptyBag

(* todo e [todo_ids] [--all] [--completed] [--pending] [--force] *)
erase(S, todo_ids, flags, force, answer) ==
  /\ Command
  /\ \E listed \in Listed(todo_ids = <<>>, selected(S, flags)) :
       Exit("e", [todo_ids |-> todo_ids, flags |-> flags, force |-> force,
                  answer |-> answer],
            erase_command(S, todo_ids, flags, force, answer, listed))

----------------------------------------------------------------------------
(* The command m *)

(* The values -p takes: click.Choice, case_sensitive=False *)
PriorityChoices ==
  {"high", "medium", "low", "h", "m", "l", "H", "M", "L", "High", "LOW"}

(* priority.lower() *)
lower(priority) ==
  CASE priority = "H" -> "h"
    [] priority = "M" -> "m"
    [] priority = "L" -> "l"
    [] priority = "High" -> "high"
    [] priority = "LOW" -> "low"
    [] OTHER -> priority

(* -p was not given *)
NoOption == ""

(* A slip: the default of the option is "low" *)
option_default_low(priority) == IF priority = NoOption THEN "low" ELSE priority

(* default="medium" *)
option(priority) == IF priority = NoOption THEN "medium" ELSE priority

(* A slip: the short forms are passed on as they are *)
normalize_priority_plain(priority) == lower(priority)

normalize_priority(priority) ==
  CASE lower(priority) = "h" -> "high"
    [] lower(priority) = "m" -> "medium"
    [] lower(priority) = "l" -> "low"
    [] OTHER -> lower(priority)

(* for todo in todos_to_modify: todo.priority = Priority(priority);        *)
(* store.update(todo); an exception ends the loop                          *)
RECURSIVE modify_each(_, _, _)
modify_each(S, listed, priority) ==
  IF listed = <<>> \/ S.raised # "" THEN S
  ELSE IF ~IsPriorityValue(priority) THEN [S EXCEPT !.raised = "ValueError"]
  ELSE modify_each(
         store_update([S EXCEPT !.objs[Head(listed)].priority = PriorityOf(priority)],
                      Head(listed)),
         Tail(listed), priority)

(* The body of modify; listed is store.get_all() *)
modify_command(S, todo_ids, priority, all, listed) ==
  LET value == normalize_priority(option(priority))
  IN IF all
       THEN IF listed = <<>> THEN Outcome(S, 0, 0, <<>>)
            ELSE LET M == modify_each(S, listed, value)
                 IN IF M.raised # "" THEN Caught(M)
                    ELSE Outcome(M, 0, Len(listed), <<>>)
     ELSE IF todo_ids = <<>> THEN Outcome(S, 0, 0, <<>>)
     ELSE LET c == collect(S, todo_ids)
              M == modify_each(S, c.found, value)
          IN IF c.not_found # <<>> /\ c.found = <<>> THEN Outcome(S, 1, 0, c.not_found)
             ELSE IF M.raised # "" THEN Caught(M)
             ELSE Outcome(M, 0, Len(c.found), c.not_found)

(* todo m [todo_ids] [-p priority] [--all] *)
modify(S, todo_ids, priority, all) ==
  /\ Command
  /\ \E listed \in Listed(all, get_all(S.todos)) :
       Exit("m", [todo_ids |-> todo_ids, priority |-> priority, all |-> all],
            modify_command(S, todo_ids, priority, all, listed))

----------------------------------------------------------------------------
(* The command a *)

(* store.add(todo) *)
store_add(S, r) ==
  IF add_full(S.available_ids)
    THEN Logged([S EXCEPT !.raised = "ValueError"], "add", S.objs[r].id)
    ELSE LET next_id == add_next_id(S.available_ids)
         IN Logged(Saved([S EXCEPT !.available_ids = HeapPop(@),
                                   !.objs[r].id = next_id,
                                   !.todos = set_item(@, next_id, r)]),
                   "add", next_id)

(* A slip: the path given is not passed on to Todo(...) *)
add_command_drops_path(S, description, file_path, priority) ==
  LET r == NewRef(1)
      T == [S EXCEPT !.objs = (r :> NewTodoObj(description,
                                      PriorityOf(normalize_priority(option(priority))),
                                      None, Str(0), S.now)) @@ @,
                     !.now = @ + 1]
      A == store_add(T, r)
  IN IF A.raised # "" THEN Caught(A) ELSE Outcome(A, 0, 1, <<>>)

(* The body of add: todo = Todo(description=, file_path=, priority=),      *)
(* store.add(todo)                                                         *)
add_command(S, description, file_path, priority) ==
  LET value == normalize_priority(option(priority))
      r == NewRef(1)
      T == [S EXCEPT !.objs = (r :> NewTodoObj(description, PriorityOf(value),
                                               file_path, Str(0), S.now)) @@ @,
                     !.now = @ + 1]
      A == store_add(T, r)
  IN IF ~IsPriorityValue(value) THEN Caught([S EXCEPT !.raised = "ValueError"])
     ELSE IF A.raised # "" THEN Caught(A)
     ELSE Outcome(A, 0, 1, <<>>)

(* todo a description [-f file_path] [-p priority] *)
add(S, description, file_path, priority) ==
  /\ Command
  /\ Exit("a", [description |-> description, file_path |-> file_path,
                priority |-> priority],
          add_command(S, description, file_path, priority))

----------------------------------------------------------------------------
(* The command l *)

priority_order(p) == CASE p = "HIGH" -> 0 [] p = "MEDIUM" -> 1 [] p = "LOW" -> 2

(* A slip: the ids are compared as text is, by their first character *)
sorted_as_text(os, listed) ==
  LET key(r) == <<priority_order(os[r].priority), DigitVal(os[r].id[1])>>
      le(a, b) == a[1] < b[1] \/ (a[1] = b[1] /\ a[2] <= b[2])
      RECURSIVE ins(_, _)
      ins(x, q) == IF q = <<>> THEN <<x>>
                   ELSE IF le(key(Head(q)), key(x)) THEN <<Head(q)>> \o ins(x, Tail(q))
                   ELSE <<x>> \o q
      RECURSIVE srt(_)
      srt(q) == IF q = <<>> THEN <<>>
                ELSE ins(q[Len(q)], srt(SubSeq(q, 1, Len(q) - 1)))
  IN srt(listed)

(* todos.sort(key=lambda t: (priority_order[t.priority], int(t.id))): a    *)
(* stable sort of the list                                                 *)
sorted(os, listed) ==
  LET key(r) == <<priority_order(os[r].priority), IntOf(os[r].id)>>
      le(a, b) == a[1] < b[1] \/ (a[1] = b[1] /\ a[2] <= b[2])
      RECURSIVE ins(_, _)
      ins(x, q) == IF q = <<>> THEN <<x>>
                   ELSE IF le(key(Head(q)), key(x)) THEN <<Head(q)>> \o ins(x, Tail(q))
                   ELSE <<x>> \o q
      RECURSIVE srt(_)
      srt(q) == IF q = <<>> THEN <<>>
                ELSE ins(q[Len(q)], srt(SubSeq(q, 1, Len(q) - 1)))
  IN srt(listed)

(* The body of list_todos: the ids of the rows of the table, in order; the *)
(* exit code is 1 when int(t.id) raises                                    *)
list_command(S, listed) ==
  IF listed = <<>> THEN [exit |-> 0, rows |-> <<>>, log |-> S.log]
  ELSE IF \E i \in 1..Len(listed) : ~IsInt(S.objs[listed[i]].id)
    THEN [exit |-> 1, rows |-> <<>>, log |-> S.log]
  ELSE LET todos_sorted == sorted(S.objs, listed)
       IN [exit |-> 0,
           rows |-> [i \in 1..Len(listed) |-> S.objs[todos_sorted[i]].id],
           log |-> S.log]

(* todo l [--completed] [--pending] [-f file_path] *)
list_todos(S, show_completed, show_pending, file_path) ==
  /\ Command
  /\ LET status == IF show_completed THEN Some("COMPLETED")
                   ELSE IF show_pending THEN Some("PENDING") ELSE None
     IN \E listed \in Orders(filter(S.todos, S.objs, status, file_path)) :
          last' = Call("l", Some([completed |-> show_completed,
                                  pending |-> show_pending,
                                  file_path |-> file_path]),
                       "", Some(list_command(S, listed)), "none")
  /\ todos' = S.todos
  /\ objs' = Restrict(S.objs, Range(S.todos))
  /\ available_ids' = S.available_ids
  /\ file' = S.file
  /\ now' = S.now
  /\ UNCHANGED <<created, other>>

----------------------------------------------------------------------------
(* Specifications *)

(* One call, with _save's outcome drawn from ios, the arguments of Todo(...) *)
(* from inputs and the ids passed from ids                                   *)
Step(ios, inputs, ids) ==
  \/ \E inp \in inputs : NewTodo(inp)
  \/ \E r \in CallerRefs : TodoMarkComplete(r)
  \/ \E r \in CallerRefs : TodoMarkPending(r)
  \/ \E r \in CallerRefs, io \in ios : Add(r, io)
  \/ \E r \in CallerRefs, io \in ios : Update(r, io)
  \/ \E todo_id \in ids, io \in ios : Remove(todo_id, io)
  \/ \E todo_id \in ids, io \in ios : MarkComplete(todo_id, io)
  \/ \E todo_id \in ids, io \in ios : MarkPending(todo_id, io)
  \/ \E todo_id \in ids : Get(todo_id)
  \/ Restart

(* The store on the files it leaves itself, every write succeeding *)
Next == Step({"ok"}, TodoInputs, IdInputs)

Spec == Init /\ [][Next]_vars

(* The store at capacity: 100 todos stored by an earlier process *)
InitFull == InitFrom({StoredDocument(NumIds)})

NextFull == Step({"ok"}, {DefaultTodo}, {Str(NumIds - 1), <<"x">>})

SpecFull == InitFull /\ [][NextFull]_vars

(* The store on whatever the file holds: also JSON documents no store wrote *)
BadEnumDocument ==
  Document((Str(0) :> [to_dict(StoredTodo(0)) EXCEPT !.priority = "urgent"]))

BadKeyDocument == Document((<<"x">> :> to_dict(StoredTodo(0))))

BadStatusDocument ==
  Document((Str(0) :> [to_dict(StoredTodo(0)) EXCEPT !.status = "done"]))

ForeignFiles == {BadEnumDocument, BadKeyDocument, BadStatusDocument}

InitForeign == InitFrom(InitFiles \cup ForeignFiles)

SpecForeign == InitForeign /\ [][Next]_vars

(* The store with its reads and the caller's priority edits, on a document *)
(* that holds todos of both statuses with and without a file path          *)
QueryTodo(i) ==
  CASE i = 0 -> NewTodoObj("A", "MEDIUM", None, Str(0), 0)
    [] i = 1 -> Todo_mark_complete(
                  NewTodoObj("B", "HIGH", Some(<<"a", "b">>), Str(1), 0), 0)
    [] i = 2 -> NewTodoObj("C", "LOW", Some(<<>>), Str(2), 0)
    [] i = 3 -> Todo_mark_complete(
                  NewTodoObj("D", "LOW", Some(<<"b">>), Str(3), 0), 0)

QueryDocument ==
  Document([k \in {Str(i) : i \in 0..3} |-> to_dict(QueryTodo(IntOf(k)))])

(* The criteria passed to filter: a status, a path ("", "b", "ba"), both,  *)
(* or neither                                                              *)
Criteria ==
  [status : {None, Some("PENDING"), Some("COMPLETED")},
   file_path : {None, Some(<<>>), Some(<<"b">>), Some(<<"b", "a">>)}]

PriorityInputs == {"HIGH", "LOW"}

QueryTodoInputs == {inp \in TodoInputs : inp.file_path # None}

InitQuery == InitFrom({MissingFile, QueryDocument})

NextQuery ==
  \/ Step({"ok"}, QueryTodoInputs, {Str(1)})
  \/ \E r \in CallerRefs, p \in PriorityInputs : TodoSetPriority(r, p)
  \/ GetAll
  \/ \E c \in Criteria : Filter(c.status, c.file_path)

SpecQuery == InitQuery /\ [][NextQuery]_vars

(* The store when _save may fail: open fails and leaves the file, or the   *)
(* write fails after open has truncated it                                 *)
NextIO == Step(IOOutcomes, {DefaultTodo}, {Str(1)})

SpecIO == Init /\ [][NextIO]_vars

(* Two processes, each with a TodoStore constructed on the same path and   *)
(* the same file; the calls are made in the one the caller has turned to   *)
Process(ts, os, h) == [todos |-> ts, objs |-> os, available_ids |-> h]

InitTwo ==
  \E f \in {MissingFile, StoredDocument(3)} :
    LET s == TodoStore_init(f)
    IN /\ file = f
       /\ objs = s.objs
       /\ todos = s.todos
       /\ available_ids = s.available_ids
       /\ created = 0
       /\ calls = 0
       /\ now = 1
       /\ last = Call("__init__", None, s.raised, None, "none")
       /\ other = Some(Process(s.todos, s.objs, s.available_ids))

(* The caller turns to the other process *)
Switch ==
  /\ Tally
  /\ StoreExists
  /\ other # None
  /\ todos' = other[1].todos
  /\ objs' = other[1].objs
  /\ available_ids' = other[1].available_ids
  /\ other' = Some(Process(todos, objs, available_ids))
  /\ last' = Call("switch", None, "", None, "none")
  /\ UNCHANGED <<file, created, now>>

NextTwo ==
  \/ Step({"ok"}, {DefaultTodo}, {Str(1)})
  \/ Switch

SpecTwo == InitTwo /\ [][NextTwo]_vars

(* The command line: every command is a process of its own, which loads   *)
(* the file when the module is imported                                    *)
IdLists ==
  { <<>>, <<Str(1)>>, <<Str(7)>>, <<Str(7), Str(2)>>, <<Str(0), Str(1)>>,
    <<Str(1), Str(1)>> }

(* The file earlier commands left: three todos, 0 and 2 pending, 1        *)
(* completed                                                               *)
CliDocument ==
  Document([k \in {Str(i) : i \in 0..2} |-> to_dict(QueryTodo(IntOf(k)))])

InitCli == InitFrom({EmptyFile, CliDocument})

(* The ids and the flag --all of one invocation *)
Selections ==
  {[todo_ids |-> ids, all |-> FALSE] : ids \in IdLists}
    \cup {[todo_ids |-> ids, all |-> TRUE] : ids \in {<<>>, <<Str(1)>>}}

(* The arguments of e: ids or flags, forced or with an answer to give *)
Erasures ==
  {a \in [todo_ids : {<<>>, <<Str(1)>>, <<Str(7)>>, <<Str(7), Str(2)>>,
                      <<Str(2), Str(2)>>},
          flags : {{}, {"all"}, {"completed"}, {"pending"},
                   {"completed", "pending"}},
          force : BOOLEAN,
          answer : Answers] :
     /\ a.force => a.answer = "y"
     /\ a.todo_ids # <<>> => a.flags \in {{}, {"all"}}
     /\ a.flags = {"all"} /\ a.todo_ids # <<>> => a.todo_ids = <<Str(1)>>
     /\ a.answer = "abort" => a.todo_ids = <<Str(1)>> \/ a.flags = {"pending"}
     /\ a.flags = {"completed", "pending"} => a.force}

(* The arguments of m *)
Modifications ==
  {a \in [todo_ids : {<<>>, <<Str(1)>>, <<Str(7)>>, <<Str(7), Str(2)>>},
          priority : {"high", "l", "H", NoOption},
          all : BOOLEAN] :
     /\ a.all => a.todo_ids \in {<<>>, <<Str(1)>>}
     /\ a.priority = "H" => a.todo_ids \in {<<>>, <<Str(7), Str(2)>>}
     /\ a.priority = NoOption => a.todo_ids \in {<<Str(1)>>, <<Str(7), Str(2)>>}}

NextCli ==
  LET S == StoreOf(file, now)
  IN \/ \E a \in Selections : complete(S, a.todo_ids, a.all)
     \/ \E a \in Selections : pending(S, a.todo_ids, a.all)
     \/ \E a \in Erasures : erase(S, a.todo_ids, a.flags, a.force, a.answer)
     \/ \E a \in Modifications : modify(S, a.todo_ids, a.priority, a.all)

SpecCli == InitCli /\ [][NextCli]_vars

(* The command a, on no file, on the file of three and on a store at       *)
(* capacity, with e <id> --force to make room                              *)
Additions ==
  {a \in [description : {"A", "B"},
          file_path : {None, Some(<<"a", "b">>)},
          priority : PriorityChoices \cup {NoOption}] :
     a.priority # NoOption => a.description = "A" /\ a.file_path = None}

InitAdd == InitFrom({MissingFile, CliDocument, StoredDocument(NumIds)})

NextAdd ==
  LET S == StoreOf(file, now)
  IN \/ \E a \in Additions : add(S, a.description, a.file_path, a.priority)
     \/ \E id \in {Str(1), Str(NumIds - 1)} : erase(S, <<id>>, {}, TRUE, "y")

SpecAdd == InitAdd /\ [][NextAdd]_vars

(* The command l on a file with the ids 1, 2 and 10, and m to change the   *)
(* priorities                                                              *)
ListDocument ==
  Document((Str(1) :> to_dict(QueryTodo(1)))
           @@ (Str(2) :> to_dict(QueryTodo(2)))
           @@ (Str(10) :> to_dict([QueryTodo(0) EXCEPT !.id = Str(10),
                                                      !.priority = "LOW",
                                                      !.file_path = Some(<<"b">>)])))

Listings ==
  [completed : BOOLEAN, pending : BOOLEAN,
   file_path : {None, Some(<<>>), Some(<<"b">>)}]

InitList == InitFrom({MissingFile, ListDocument})

NextList ==
  LET S == StoreOf(file, now)
  IN \/ \E a \in Listings : list_todos(S, a.completed, a.pending, a.file_path)
     \/ \E a \in Modifications : modify(S, a.todo_ids, a.priority, a.all)

SpecList == InitList /\ [][NextList]_vars

----------------------------------------------------------------------------
(* Properties *)

AllIds == 0..(NumIds - 1)

FreeIds == BagToSet(available_ids)

IntKeys(ts) == {IntOf(k) : k \in DOMAIN ts}

Live(ts) == Cardinality(DOMAIN ts)

(* The calls that mutate the store *)
Mutators == {"add", "update", "remove", "mark_complete", "mark_pending"}

(* A store constructed on file f holds the mapping ts over the objects os,  *)
(* every field equal                                                        *)
Persisted(f, ts, os) ==
  LET s == TodoStore_init(f)
  IN /\ s.raised = ""
     /\ DOMAIN s.todos = DOMAIN ts
     /\ \A k \in DOMAIN ts : s.objs[s.todos[k]] = os[ts[k]]

(* A file that holds a persisted collection *)
ValidCollection(f) ==
  /\ f.kind = "doc"
  /\ \A k \in DOMAIN f.data : IsInt(k) /\ from_dict_ok(f.data[k])

(* C1: in every state of a constructed store the free ids and the integer  *)
(* values of the keys of todos are disjoint and together are 0..99.        *)
C1_PoolPartition ==
  StoreExists =>
    /\ \A k \in DOMAIN todos : IsInt(k)
    /\ FreeIds \cap IntKeys(todos) = {}
    /\ FreeIds \cup IntKeys(todos) = AllIds

(* A store that has removed an entry and still holds others *)
C1_Witness == last.op = "remove" /\ last.ret = Some(True) /\ Live(todos) > 0

(* C2: a successful add gives the todo, whatever id it had, the decimal    *)
(* string of the smallest integer of 0..99 that is no key of todos before  *)
(* the call, and stores it under that id, which no entry had.              *)
C2_AddAllocatesSmallest ==
  [][(last'.op = "add" /\ last'.raised = "") =>
       LET r == last'.arg[1]
           free == AllIds \ IntKeys(todos)
           id == objs'[r].id
       IN /\ free # {}
          /\ id = Str(CHOOSE i \in free : \A j \in free : i <= j)
          /\ id \notin DOMAIN todos
          /\ DOMAIN todos' = DOMAIN todos \cup {id}
          /\ todos'[id] = r
          /\ last'.ret = Some(r)]_vars

(* A, B, C stored as 0, 1, 2; 1 removed; a todo constructed with the id    *)
(* "x" added: it is stored as 1 beside the todos 0 and 2                   *)
C2_Witness ==
  /\ last.op = "add"
  /\ last.raised = ""
  /\ DOMAIN todos = {Str(0), Str(1), Str(2)}
  /\ todos[Str(0)] = LoadedRef(Str(0))
  /\ todos[Str(2)] = LoadedRef(Str(2))
  /\ todos[Str(1)] = last.arg[1]
  /\ objs[last.arg[1]].description = "C"
  /\ objs[last.arg[1]].id = Str(1)

(* C3: add on a store holding 100 todos raises and changes nothing: not    *)
(* the entries, the pool, the file or any field of the todo passed in.     *)
C3_AddOnFullStore ==
  [][(last'.op = "add" /\ Live(todos) = NumIds) =>
       /\ last'.raised = "ValueError"
       /\ todos' = todos
       /\ available_ids' = available_ids
       /\ file' = file
       /\ objs' = objs]_vars

C3_Witness ==
  last.op = "add" /\ last.raised = "ValueError" /\ Live(todos) = NumIds

(* C4: after every add, update, remove, mark_complete or mark_pending that *)
(* took effect and whose write did not fail, a store constructed on the    *)
(* file holds the same id -> todo mapping, all fields equal.               *)
C4_MutationPersisted ==
  ( /\ last.op \in Mutators
    /\ last.raised = ""
    /\ last.ret \notin {None, Some(False)}
    /\ last.io \notin (IOOutcomes \ {"ok"}) )
  => Persisted(file, todos, objs)

(* A completed todo reopened in a store that holds others *)
C4_Witness ==
  /\ last.op = "mark_pending"
  /\ last.ret # None
  /\ last.io = "ok"
  /\ Live(todos) > 1
  /\ \E k \in DOMAIN todos : objs[todos[k]].status = "COMPLETED"

(* C5: constructing a TodoStore lets no exception escape, and on a file    *)
(* that holds no persisted collection (missing, empty, malformed JSON, or  *)
(* entries that cannot be rebuilt) the store is empty with every id free.  *)
C5_ConstructionNeverRaises ==
  last.op = "__init__" =>
    /\ last.raised = ""
    /\ ~ValidCollection(file) =>
         /\ DOMAIN todos = {}
         /\ FreeIds = AllIds
         /\ HeapLen(available_ids) = NumIds

(* C6: update of a todo whose id is no key of todos raises and leaves the  *)
(* entries, the objects, the pool and the file as they were.               *)
C6_UpdateUnknownRaises ==
  [][(last'.op = "update" /\ objs[last'.arg[1]].id \notin DOMAIN todos) =>
       /\ last'.raised = "ValueError"
       /\ todos' = todos
       /\ objs' = objs
       /\ available_ids' = available_ids
       /\ file' = file]_vars

(* update raised for an id that was allocated and has been removed, in a   *)
(* store that holds other todos                                            *)
C6_Witness ==
  /\ last.op = "update"
  /\ last.raised = "ValueError"
  /\ objs[last.arg[1]].id = Str(1)
  /\ Str(1) \notin DOMAIN todos
  /\ Live(todos) > 0

(* C7: mark_complete and mark_pending of an id that is no key of todos     *)
(* return None, raise nothing, write nothing and change nothing.           *)
C7_MarkUnknownAbsent ==
  [][(last'.op \in {"mark_complete", "mark_pending"}
        /\ last'.arg[1] \notin DOMAIN todos) =>
       /\ last'.raised = ""
       /\ last'.ret = None
       /\ last'.io = "none"
       /\ todos' = todos
       /\ objs' = objs
       /\ available_ids' = available_ids
       /\ file' = file]_vars

(* mark_complete("01") returned None in a store that holds the todo 1 *)
C7_Witness ==
  /\ last.op = "mark_complete"
  /\ last.arg = Some(<<"0", "1">>)
  /\ last.ret = None
  /\ Str(1) \in DOMAIN todos

(* C8: remove of an id that is no key of todos returns False, writes       *)
(* nothing and changes nothing; the pool gains no id.                      *)
C8_RemoveUnknownNoOp ==
  [][(last'.op = "remove" /\ last'.arg[1] \notin DOMAIN todos) =>
       /\ last'.raised = ""
       /\ last'.ret = Some(False)
       /\ last'.io = "none"
       /\ todos' = todos
       /\ objs' = objs
       /\ available_ids' = available_ids
       /\ file' = file]_vars

(* remove("01") returned False in a store that holds the todo 1 *)
C8_Witness ==
  /\ last.op = "remove"
  /\ last.arg = Some(<<"0", "1">>)
  /\ last.ret = Some(False)
  /\ Str(1) \in DOMAIN todos

(* C9: remove of a live id returns True, deletes that entry alone and      *)
(* makes the id free; and add on a store below capacity never raises and   *)
(* adds one entry, so a remove followed by an add restores the count.      *)
C9_RemoveThenAdd ==
  [][/\ (last'.op = "remove" /\ last'.arg[1] \in DOMAIN todos) =>
          LET id == last'.arg[1]
          IN /\ last'.raised = ""
             /\ last'.ret = Some(True)
             /\ DOMAIN todos' = DOMAIN todos \ {id}
             /\ \A k \in DOMAIN todos' :
                  todos'[k] = todos[k] /\ objs'[todos'[k]] = objs[todos[k]]
             /\ IntOf(id) \in BagToSet(available_ids')
             /\ Live(todos') = Live(todos) - 1
     /\ (last'.op = "add" /\ Live(todos) < NumIds) =>
          /\ last'.raised = ""
          /\ Live(todos') = Live(todos) + 1]_vars

(* 99 removed from a full store and a todo added: it got 99 and the store  *)
(* is full again                                                           *)
C9_Witness ==
  /\ last.op = "add"
  /\ last.raised = ""
  /\ objs[last.arg[1]].id = Str(NumIds - 1)
  /\ todos[Str(NumIds - 1)] = last.arg[1]
  /\ Live(todos) = NumIds

(* C10: update of a todo whose id is a key of todos stores that todo under *)
(* the key, returns it and writes the file; the keys, every other entry,   *)
(* the fields of the todo and the pool are as they were.                   *)
C10_UpdateReplaces ==
  [][(last'.op = "update" /\ objs[last'.arg[1]].id \in DOMAIN todos) =>
       LET r == last'.arg[1]
           id == objs[r].id
       IN /\ last'.raised = ""
          /\ last'.ret = Some(r)
          /\ last'.io # "none"
          /\ last'.io = "ok" => Persisted(file', todos', objs')
          /\ DOMAIN todos' = DOMAIN todos
          /\ todos'[id] = r
          /\ objs'[r] = objs[r]
          /\ \A k \in DOMAIN todos \ {id} :
               todos'[k] = todos[k] /\ objs'[todos'[k]] = objs[todos[k]]
          /\ available_ids' = available_ids]_vars

(* The todo loaded under 0, which no call of the run removes, was replaced *)
(* by one the caller constructed; get("0") returns its fields              *)
C10_Witness ==
  /\ last.op = "update"
  /\ last.raised = ""
  /\ Live(todos) = 3
  /\ LoadedRef(Str(2)) \in Range(todos)
  /\ get(Str(0)) = Some(last.arg[1])
  /\ objs[last.arg[1]].created_at > 0
  /\ Persisted(file, todos, objs)

(* C11: a successful add inserts exactly one entry: one entry more, the   *)
(* pool without exactly the allocated id, every entry held before          *)
(* unchanged in all its fields, the todo returned with the allocated id,   *)
(* stored under it with the description, priority, status and file_path it *)
(* had.                                                                    *)
C11_AddInsertsOne ==
  [][(last'.op = "add" /\ last'.raised = "") =>
       LET r == last'.arg[1]
           id == objs'[r].id
       IN /\ Live(todos') = Live(todos) + 1
          /\ IsInt(id)
          /\ available_ids' (+) SetToBag({IntOf(id)}) = available_ids
          /\ \A k \in DOMAIN todos :
               /\ k \in DOMAIN todos'
               /\ todos'[k] = todos[k]
               /\ objs'[todos'[k]] = objs[todos[k]]
          /\ last'.ret = Some(r)
          /\ todos'[id] = r
          /\ objs'[r].description = objs[r].description
          /\ objs'[r].priority = objs[r].priority
          /\ objs'[r].status = objs[r].status
          /\ objs'[r].file_path = objs[r].file_path]_vars

C13_MarkPendingRestores ==
  [][/\ (last'.op = "mark_pending" /\ last'.ret # None) =>
          LET r == last'.ret[1]
          IN /\ r = todos[last'.arg[1]]
             /\ objs'[r].status = "PENDING"
             /\ objs'[r].completed_at = None
     /\ (last'.op = "Todo.mark_pending") =>
          LET r == last'.arg[1]
          IN /\ objs'[r].status = "PENDING"
             /\ objs'[r].completed_at = None]_vars

(* The todo 1, stored as completed, completed twice more and reopened: the *)
(* three calls of the run                                                  *)
C13_Witness ==
  /\ last.op = "mark_pending"
  /\ last.arg = Some(Str(1))
  /\ last.ret # None
  /\ calls = 3
  /\ created = 0
  /\ now = 3
  /\ objs[todos[Str(1)]].status = "PENDING"

(* C14: mark_complete, on the object or through the store, sets            *)
(* completed_at to the time of the call also when the todo is COMPLETED    *)
(* already.                                                                *)
C14_MarkCompleteRefreshes ==
  [][/\ (last'.op = "mark_complete" /\ last'.ret # None) =>
          LET r == last'.ret[1]
          IN /\ r = todos[last'.arg[1]]
             /\ objs'[r].status = "COMPLETED"
             /\ objs'[r].completed_at = Some(now)
             /\ now' > now
     /\ (last'.op = "Todo.mark_complete") =>
          LET r == last'.arg[1]
          IN /\ objs'[r].status = "COMPLETED"
             /\ objs'[r].completed_at = Some(now)
             /\ now' > now]_vars

(* The todo 1, stored as completed at time 0, completed again as the first *)
(* call of the run: its completed_at is the time of that call              *)
C14_Witness ==
  /\ last.op = "mark_complete"
  /\ last.arg = Some(Str(1))
  /\ last.ret # None
  /\ calls = 1
  /\ objs[todos[Str(1)]].completed_at = Some(1)

(* The entries of ts whose todo is in S, as a list *)
Entries(ts, S) ==
  [r \in (Range(ts) \cap S) |-> Cardinality({k \in DOMAIN ts : ts[k] = r})]

(* The elements two lists have in common *)
Common(a, b) ==
  [r \in (DOMAIN a \cap DOMAIN b) |-> IF a[r] <= b[r] THEN a[r] ELSE b[r]]

(* C15 as stated: the created_at stored under an id is the same from one   *)
(* state to the next for as long as the id is live, across every call,     *)
(* update included, and across a reload.                                   *)
C15_CreatedAtFixedUnderId ==
  [][\A k \in DOMAIN todos \cap DOMAIN todos' :
       objs'[todos'[k]].created_at = objs[todos[k]].created_at]_vars

(* C15 amended: no call changes the created_at of a Todo object; the       *)
(* created_at stored under a live id is the same across every call and a   *)
(* reload, except that a successful update stores under the id the         *)
(* created_at of the todo it was passed.                                   *)
C15_CreatedAtFixed ==
  [][/\ last'.op # "__init__" =>
          \A r \in DOMAIN objs \cap DOMAIN objs' :
            objs'[r].created_at = objs[r].created_at
     /\ \A k \in DOMAIN todos \cap DOMAIN todos' :
          IF last'.op = "update" /\ last'.raised = "" /\ k = objs[last'.arg[1]].id
            THEN objs'[todos'[k]].created_at = objs[last'.arg[1]].created_at
            ELSE objs'[todos'[k]].created_at = objs[todos[k]].created_at]_vars

(* The todo stored under 1 at time 0 replaced, by update, by a todo the    *)
(* caller constructed at time 1 with the id "1"                            *)
C15_Witness ==
  /\ last.op = "update"
  /\ last.raised = ""
  /\ calls = 2
  /\ Live(todos) = 4
  /\ todos[Str(1)] = last.arg[1]
  /\ objs[todos[Str(1)]].created_at = 1

(* C16: filter(status=s) returns exactly the entries whose status is s,    *)
(* and filter(PENDING) and filter(COMPLETED) together are get_all().       *)
C16_FilterByStatus ==
  [][(last'.op = "filter" /\ last'.arg[1].status # None
        /\ last'.arg[1].file_path = None) =>
       LET s == last'.arg[1].status[1]
           HasStatus == {r \in DOMAIN objs : objs[r].status = s}
       IN /\ last'.raised = ""
          /\ last'.ret = Some(Entries(todos, HasStatus))
          /\ filter(todos, objs, Some("PENDING"), None)
               (+) filter(todos, objs, Some("COMPLETED"), None) = get_all(todos)]_vars

(* filter(status=COMPLETED) returned two of the four todos of a store *)
C16_Witness ==
  /\ last.op = "filter"
  /\ last.arg = Some([status |-> Some("COMPLETED"), file_path |-> None])
  /\ BagCardinality(last.ret[1]) = 2
  /\ Live(todos) = 4

(* C17: filter(file_path=p) returns exactly the entries whose file_path is *)
(* not None and contains p.                                                *)
C17_FilterByPath ==
  [][(last'.op = "filter" /\ last'.arg[1].status = None
        /\ last'.arg[1].file_path # None) =>
       LET p == last'.arg[1].file_path[1]
           HasPath ==
             {r \in DOMAIN objs : /\ objs[r].file_path # None
                                  /\ IsSubstring(p, objs[r].file_path[1])}
       IN /\ last'.raised = ""
          /\ last'.ret = Some(Entries(todos, HasPath))]_vars

(* C18: filter(s, p) returns the todos that filter(s) and filter(p) both   *)
(* return, and filter() returns what get_all() returns.                    *)
C18_FilterConjunction ==
  [][(last'.op = "filter") =>
       LET c == last'.arg[1]
       IN /\ last'.ret = Some(Common(filter(todos, objs, c.status, None),
                                     filter(todos, objs, None, c.file_path)))
          /\ (c.status = None /\ c.file_path = None) =>
               last'.ret = Some(get_all(todos))]_vars

(* filter with both criteria returned some todos, fewer than either        *)
(* criterion alone                                                         *)
C18_Witness ==
  /\ last.op = "filter"
  /\ last.arg[1].status # None
  /\ last.arg[1].file_path # None
  /\ BagCardinality(last.ret[1]) > 0
  /\ BagCardinality(last.ret[1])
       < BagCardinality(filter(todos, objs, last.arg[1].status, None))
  /\ BagCardinality(last.ret[1])
       < BagCardinality(filter(todos, objs, None, last.arg[1].file_path))

(* C19: get, get_all and filter raise nothing, write nothing and change    *)
(* nothing; get returns the todo stored under the id, None if there is     *)
(* none.                                                                   *)
C19_ReadsArePure ==
  [][(last'.op \in {"get", "get_all", "filter"}) =>
       /\ last'.raised = ""
       /\ last'.io = "none"
       /\ todos' = todos
       /\ objs' = objs
       /\ available_ids' = available_ids
       /\ file' = file
       /\ last'.op = "get" =>
            IF last'.arg[1] \in DOMAIN todos
              THEN last'.ret = Some(todos[last'.arg[1]])
              ELSE last'.ret = None]_vars

(* get of an id that was removed returned None in a store holding others *)
C19_Witness ==
  /\ last.op = "get"
  /\ last.ret = None
  /\ Live(todos) = 3

(* C20: when the write of add, update, remove, mark_complete or            *)
(* mark_pending fails, the call raises nothing and returns what it returns *)
(* otherwise, and the change to todos and available_ids is kept; after a   *)
(* call whose write succeeds, the file again reloads to the collection in  *)
(* memory.                                                                 *)
C20_FailedSaveKeepsMutation ==
  [][/\ (last'.op \in Mutators /\ last'.io \in IOOutcomes \ {"ok"}) =>
          /\ last'.raised = ""
          /\ last'.op = "add" =>
               LET r == last'.arg[1]
               IN /\ last'.ret = Some(r)
                  /\ objs'[r].id \notin DOMAIN todos
                  /\ todos' = set_item(todos, objs'[r].id, r)
                  /\ available_ids' (+) SetToBag({IntOf(objs'[r].id)})
                       = available_ids
          /\ last'.op = "update" =>
               LET r == last'.arg[1]
               IN /\ last'.ret = Some(r)
                  /\ todos' = set_item(todos, objs[r].id, r)
                  /\ available_ids' = available_ids
          /\ last'.op = "remove" =>
               LET id == last'.arg[1]
               IN /\ last'.ret = Some(True)
                  /\ id \in DOMAIN todos
                  /\ todos' = del_item(todos, id)
                  /\ available_ids' = available_ids (+) SetToBag({IntOf(id)})
          /\ last'.op = "mark_complete" =>
               /\ last'.ret = Some(todos[last'.arg[1]])
               /\ objs'[todos[last'.arg[1]]].status = "COMPLETED"
               /\ todos' = todos /\ available_ids' = available_ids
          /\ last'.op = "mark_pending" =>
               /\ last'.ret = Some(todos[last'.arg[1]])
               /\ objs'[todos[last'.arg[1]]].status = "PENDING"
               /\ todos' = todos /\ available_ids' = available_ids
     /\ (last'.op \in Mutators /\ last'.io = "ok") =>
          Persisted(file', todos', objs')]_vars

(* An add whose write failed after open had truncated the file: the todo   *)
(* is in the store and the file does not hold the collection               *)
C20_Witness ==
  /\ last.op = "add"
  /\ last.io = "write_fails_partial"
  /\ last.raised = ""
  /\ Live(todos) = 4
  /\ ~Persisted(file, todos, objs)

(* C21: after a load that succeeded the pool is 0..99 without the keys of  *)
(* the file, whatever the pool of the process before was, so the id the    *)
(* next add allocates is the smallest integer that is no key of the file.  *)
C21_PoolRebuiltFromFile ==
  [][(last'.op = "__init__" /\ last'.raised = "" /\ file'.kind = "doc") =>
       LET used == IntKeys(file'.data)
           free == AllIds \ used
       IN /\ BagToSet(available_ids') = free
          /\ HeapLen(available_ids') = Cardinality(free)
          /\ free # {} =>
               add_next_id(available_ids')
                 = Str(CHOOSE i \in free : \A j \in free : i <= j)]_vars

(* A store constructed by a second process on a document with the keys    *)
(* 0, 1, 2, after the first made one call: its pool is 3..99               *)
C21_Witness ==
  /\ last.op = "__init__"
  /\ calls = 2
  /\ created = 0
  /\ now = 1
  /\ file = StoredDocument(3)
  /\ FreeIds = AllIds \ {0, 1, 2}

(* C23: from_dict(to_dict(todo)) equals todo in all seven fields, for      *)
(* every todo of the process, and to_dict renders the priority as "high",  *)
(* "medium" or "low" and the status as "pending" or "completed".           *)
C23_DictRoundTrip ==
  \A r \in DOMAIN objs :
    LET todo == objs[r]
        data == to_dict(todo)
    IN /\ from_dict_ok(data)
       /\ from_dict(data) = todo
       /\ DOMAIN data = {"description", "priority", "file_path", "id", "status",
                         "created_at", "completed_at"}
       /\ data.priority = (CASE todo.priority = "HIGH" -> "high"
                             [] todo.priority = "MEDIUM" -> "medium"
                             [] todo.priority = "LOW" -> "low")
       /\ data.status = (CASE todo.status = "PENDING" -> "pending"
                           [] todo.status = "COMPLETED" -> "completed")

(* A process that loaded todos of the three priorities and both statuses,  *)
(* with a path, with the path "" and without one, through from_dict        *)
C23_Witness ==
  /\ last.op = "__init__"
  /\ calls > 0
  /\ \E r \in DOMAIN objs :
       /\ objs[r].priority = "HIGH" /\ objs[r].status = "COMPLETED"
       /\ objs[r].completed_at # None /\ objs[r].file_path = Some(<<"a", "b">>)
  /\ \E r \in DOMAIN objs :
       /\ objs[r].priority = "LOW" /\ objs[r].status = "PENDING"
       /\ objs[r].completed_at = None /\ objs[r].file_path = Some(<<>>)
  /\ \E r \in DOMAIN objs :
       objs[r].priority = "MEDIUM" /\ objs[r].file_path = None

(* C24: from_dict raises, and no todo is built, when the priority of a     *)
(* mapping is none of "high", "medium", "low" or its status none of        *)
(* "pending", "completed".                                                 *)
C24_FromDictRejects ==
  (/\ last.op = "__init__"
   /\ file.kind = "doc"
   /\ \E k \in DOMAIN file.data :
        \/ file.data[k].priority \notin {"high", "medium", "low"}
        \/ file.data[k].status \notin {"pending", "completed"})
  => /\ last.raised = "ValueError"
     /\ DOMAIN objs = {}
     /\ DOMAIN todos = {}

(* The load of a document whose only entry has the status "done" *)
C24_Witness ==
  /\ last.op = "__init__"
  /\ last.raised = "ValueError"
  /\ file = BadStatusDocument

(* C22: with two stores on one path, each write leaves in the file the     *)
(* whole collection of the store that wrote, and nothing of the other      *)
(* store, which is not changed by it.                                      *)
C22_LastWriterWins ==
  [][(last'.op \in Mutators /\ last'.io = "ok") =>
       /\ Persisted(file', todos', objs')
       /\ other' = other]_vars

(* One store wrote last; the other holds, under an id the file does not    *)
(* have, a todo it added and wrote before                                  *)
C22_Witness ==
  /\ last.op \in Mutators
  /\ last.io = "ok"
  /\ other # None
  /\ Persisted(file, todos, objs)
  /\ \E k \in DOMAIN other[1].todos :
       /\ other[1].todos[k][1] = "N"
       /\ k \notin DOMAIN file.data

(* The fields of a todo apart from those named are the same in a and b *)
SameBut(a, b, fields) == \A f \in (DOMAIN a) \ fields : a[f] = b[f]

(* The todos of store S under the ids ks are in the next state what they   *)
(* were, the fields named apart                                            *)
Kept(S, ks, fields) ==
  \A k \in ks : /\ k \in DOMAIN todos'
                /\ SameBut(objs'[todos'[k]], S.objs[S.todos[k]], fields)

(* C25: c <ids> and p <ids> switch every given id that exists and report   *)
(* the ids that do not; the exit code is non-zero exactly when some id was *)
(* not found and none was found; the live ids, the pool and every other    *)
(* field and todo stay as they were, and the file holds the result.        *)
C25_MarkByIds ==
  [][(last'.op \in {"c", "p"} /\ ~last'.arg[1].all
        /\ last'.arg[1].todo_ids # <<>>) =>
       LET S == StoreOf(file, now)
           ids == last'.arg[1].todo_ids
           found == Range(ids) \cap DOMAIN S.todos
           Missing(id) == id \notin DOMAIN S.todos
           out == last'.ret[1]
       IN /\ DOMAIN todos' = DOMAIN S.todos
          /\ available_ids' = S.available_ids
          /\ \A id \in found :
               objs'[todos'[id]].status =
                 IF last'.op = "c" THEN "COMPLETED" ELSE "PENDING"
          /\ Kept(S, found, {"status", "completed_at"})
          /\ Kept(S, DOMAIN S.todos \ found, {})
          /\ out.not_found = SelectSeq(ids, Missing)
          /\ (out.exit # 0) <=> (out.not_found # <<>> /\ found = {})
          /\ Persisted(file', todos', objs')]_vars

(* c 7 2 on a store where 2 is pending and 7 is not an id: exit code 0, 7  *)
(* reported, 2 completed                                                   *)
C25_Witness ==
  /\ last.op = "c" /\ last.arg[1].todo_ids = <<Str(7), Str(2)>>
  /\ ~last.arg[1].all
  /\ last.ret[1].exit = 0 /\ last.ret[1].not_found = <<Str(7)>>
  /\ last.ret[1].log = << <<"mark_complete", Str(7), "absent">>,
                          <<"mark_complete", Str(2), "completed">> >>
  /\ objs[todos[Str(2)]].status = "COMPLETED"
  /\ objs[todos[Str(2)]].completed_at # Some(0)

(* The keys of store S whose todo has the status st *)
WithStatus(S, st) == {k \in DOMAIN S.todos : S.objs[S.todos[k]].status = st}

(* C26: c --all marks completed exactly the PENDING todos and reports how  *)
(* many they were; afterwards no todo is PENDING and the todos that were   *)
(* COMPLETED are what they were, completed_at included. p --all likewise   *)
(* with the statuses exchanged.                                            *)
C26_MarkAll ==
  [][(last'.op \in {"c", "p"} /\ last'.arg[1].all) =>
       LET S == StoreOf(file, now)
           from == IF last'.op = "c" THEN "PENDING" ELSE "COMPLETED"
           to == IF last'.op = "c" THEN "COMPLETED" ELSE "PENDING"
           sel == WithStatus(S, from)
           out == last'.ret[1]
       IN /\ out.exit = 0
          /\ out.count = Cardinality(sel)
          /\ Len(out.log) = Cardinality(sel)
          /\ {c[2] : c \in Range(out.log)} = sel
          /\ DOMAIN todos' = DOMAIN S.todos
          /\ available_ids' = S.available_ids
          /\ \A k \in DOMAIN todos' : objs'[todos'[k]].status = to
          /\ Kept(S, sel, {"status", "completed_at"})
          /\ Kept(S, DOMAIN S.todos \ sel, {})
          /\ Persisted(file', todos', objs')]_vars

(* c --all on the store of three where 0 and 2 were pending: 2 reported,   *)
(* both completed now at different times, 1 still completed at time 0     *)
C26_Witness ==
  /\ last.op = "c" /\ last.arg[1].all
  /\ last.ret[1].count = 2
  /\ DOMAIN todos = {Str(0), Str(1), Str(2)}
  /\ \A k \in DOMAIN todos : objs[todos[k]].status = "COMPLETED"
  /\ objs[todos[Str(1)]].completed_at = Some(0)
  /\ objs[todos[Str(0)]].completed_at # objs[todos[Str(2)]].completed_at

(* C27: e <ids> --force removes every named todo that exists; one that was *)
(* pending is first updated in the file as completed; afterwards no named  *)
(* id is a key, the ids removed are back in the pool and every todo not    *)
(* named is what it was.                                                   *)
C27_EraseByIds ==
  [][(last'.op = "e" /\ last'.arg[1].todo_ids # <<>> /\ last'.arg[1].force) =>
       LET S == StoreOf(file, now)
           named == Range(last'.arg[1].todo_ids)
           found == named \cap DOMAIN S.todos
           out == last'.ret[1]
           log == out.log
       IN /\ DOMAIN todos' = DOMAIN S.todos \ named
          /\ \A id \in named : id \notin DOMAIN todos'
          /\ available_ids' =
               S.available_ids (+) [i \in {IntOf(id) : id \in found} |-> 1]
          /\ Kept(S, DOMAIN S.todos \ named, {})
          /\ \A id \in found :
               \E j \in 1..Len(log) :
                 /\ log[j] = <<"remove", id, "absent">>
                 /\ S.objs[S.todos[id]].status = "PENDING" =>
                      \E i \in 1..(j - 1) : log[i] = <<"update", id, "completed">>
          /\ out.exit = IF found = {} THEN 1 ELSE 0
          /\ Persisted(file', todos', objs')]_vars

(* e 7 2 --force where 2 was pending and 7 is no id: 2 written as          *)
(* completed, then removed; 0 and 1 are left and 2 is in the pool          *)
C27_Witness ==
  /\ last.op = "e" /\ last.arg[1].todo_ids = <<Str(7), Str(2)>>
  /\ last.arg[1].force
  /\ last.ret[1].exit = 0
  /\ last.ret[1].log = << <<"update", Str(2), "completed">>,
                          <<"remove", Str(2), "absent">> >>
  /\ DOMAIN todos = {Str(0), Str(1)}
  /\ BagIn(2, available_ids)

(* C28: e --all --force leaves the store empty and all 100 ids free;       *)
(* e --completed --force removes exactly the COMPLETED todos and           *)
(* e --pending --force exactly the PENDING ones, the others being what     *)
(* they were.                                                              *)
C28_EraseByFlag ==
  [][(last'.op = "e" /\ last'.arg[1].todo_ids = <<>>
        /\ last'.arg[1].flags # {} /\ last'.arg[1].force) =>
       LET S == StoreOf(file, now)
           flags == last'.arg[1].flags
           sel == IF "all" \in flags THEN DOMAIN S.todos
                  ELSE IF "completed" \in flags THEN WithStatus(S, "COMPLETED")
                  ELSE WithStatus(S, "PENDING")
           out == last'.ret[1]
       IN /\ DOMAIN todos' = DOMAIN S.todos \ sel
          /\ Kept(S, DOMAIN S.todos \ sel, {})
          /\ available_ids' =
               S.available_ids (+) [i \in {IntOf(id) : id \in sel} |-> 1]
          /\ "all" \in flags =>
               /\ DOMAIN todos' = {}
               /\ BagToSet(available_ids') = AllIds
               /\ BagCardinality(available_ids') = NumIds
          /\ out.exit = 0 /\ out.count = Cardinality(sel)
          /\ Persisted(file', todos', objs')]_vars

(* e --completed --force on the store of three: 1 is gone, 0 and 2 are     *)
(* there and pending, 99 ids are free                                      *)
C28_Witness ==
  /\ last.op = "e" /\ last.arg[1].todo_ids = <<>>
  /\ last.arg[1].flags = {"completed"} /\ last.arg[1].force
  /\ last.ret[1].count = 1
  /\ DOMAIN todos = {Str(0), Str(2)}
  /\ \A k \in DOMAIN todos : objs[todos[k]].status = "PENDING"
  /\ BagToSet(available_ids) = AllIds \ {0, 2}

(* C29: m <ids> -p X sets the priority of every named todo that exists to  *)
(* X, and m -a -p X that of every todo; no other field of any todo         *)
(* changes, nor the live ids, nor the pool, nor any todo not selected.     *)
C29_ModifyOnlyPriority ==
  [][(last'.op = "m" /\ (last'.arg[1].all \/ last'.arg[1].todo_ids # <<>>)) =>
       LET S == StoreOf(file, now)
           a == last'.arg[1]
           sel == IF a.all THEN DOMAIN S.todos
                  ELSE Range(a.todo_ids) \cap DOMAIN S.todos
           X == CASE a.priority \in {"high", "h", "H"} -> "HIGH"
                  [] a.priority \in {"medium", "m", NoOption} -> "MEDIUM"
                  [] a.priority \in {"low", "l", "LOW"} -> "LOW"
       IN /\ \A k \in sel : objs'[todos'[k]].priority = X
          /\ Kept(S, sel, {"priority"})
          /\ Kept(S, DOMAIN S.todos \ sel, {})
          /\ DOMAIN todos' = DOMAIN S.todos
          /\ available_ids' = S.available_ids
          /\ Persisted(file', todos', objs')]_vars

(* m 7 2 -p l on the store of three: 2 has priority LOW and is otherwise   *)
(* what it was, 1 is still HIGH, 0 still MEDIUM                            *)
C29_Witness ==
  /\ last.op = "m" /\ last.arg[1].todo_ids = <<Str(7), Str(2)>>
  /\ last.arg[1].priority = "l" /\ ~last.arg[1].all
  /\ last.ret[1].exit = 0 /\ last.ret[1].count = 1
  /\ DOMAIN todos = {Str(0), Str(1), Str(2)}
  /\ objs[todos[Str(2)]] = [QueryTodo(2) EXCEPT !.priority = "LOW"]
  /\ objs[todos[Str(1)]].priority = "HIGH"
  /\ objs[todos[Str(0)]].priority = "MEDIUM"

(* C30: c, p and m with neither ids nor --all, e with neither ids nor a    *)
(* flag, and e without --force whose confirmation is answered no, exit 0   *)
(* after no mutating call on the store: the store and the file are what    *)
(* they were.                                                              *)
C30_NothingSelected ==
  [][LET S == StoreOf(file, now)
         a == last'.arg[1]
         asked == /\ ~a.force
                  /\ IF a.todo_ids # <<>>
                       THEN Range(a.todo_ids) \cap DOMAIN S.todos # {}
                       ELSE /\ a.flags # {}
                            /\ \/ "all" \in a.flags /\ DOMAIN S.todos # {}
                               \/ "completed" \in a.flags
                                    /\ WithStatus(S, "COMPLETED") # {}
                               \/ a.flags = {"pending"}
                                    /\ WithStatus(S, "PENDING") # {}
     IN (\/ last'.op \in {"c", "p", "m"} /\ a.todo_ids = <<>> /\ ~a.all
         \/ last'.op = "e" /\ a.todo_ids = <<>> /\ a.flags = {}
         \/ last'.op = "e" /\ asked /\ a.answer = "n")
        => /\ last'.ret[1].exit = 0
           /\ last'.ret[1].log = <<>>
           /\ file' = file
           /\ DOMAIN todos' = DOMAIN S.todos
           /\ Kept(S, DOMAIN S.todos, {})
           /\ available_ids' = S.available_ids]_vars

(* e 7 2 without --force on the store of three, answered no: exit code 0,  *)
(* no mutating call, 2 still there and pending                             *)
C30_Witness ==
  /\ last.op = "e" /\ last.arg[1].todo_ids = <<Str(7), Str(2)>>
  /\ ~last.arg[1].force /\ last.arg[1].answer = "n"
  /\ last.ret[1].exit = 0 /\ last.ret[1].log = <<>>
  /\ DOMAIN todos = {Str(0), Str(1), Str(2)}
  /\ objs[todos[Str(2)]].status = "PENDING"
  /\ file = CliDocument

(* The stored priority the words of -p stand for; MEDIUM without -p *)
Meant(priority) ==
  CASE priority \in {"high", "h", "H", "High"} -> "HIGH"
    [] priority \in {"medium", "m", "M", NoOption} -> "MEDIUM"
    [] priority \in {"low", "l", "L", "LOW"} -> "LOW"

(* The todo a adds to store S under key k in the next state *)
Added(S, k) ==
  /\ k \notin DOMAIN S.todos
  /\ DOMAIN todos' = DOMAIN S.todos \cup {k}
  /\ objs'[todos'[k]] =
       [description |-> last'.arg[1].description,
        priority |-> Meant(last'.arg[1].priority),
        file_path |-> last'.arg[1].file_path,
        id |-> k, status |-> "PENDING", created_at |-> now,
        completed_at |-> None]
  /\ Kept(S, DOMAIN S.todos, {})

(* C31 as stated: every a adds exactly one PENDING todo with the given     *)
(* description and path and the priority meant.                            *)
C31_AddAlwaysAdds ==
  [][last'.op = "a" =>
       \E k \in DOMAIN todos' : Added(StoreOf(file, now), k)]_vars

(* C31, amended: on a store with a free id, a adds exactly one PENDING     *)
(* todo with the given description and path, MEDIUM without -p, and the    *)
(* short forms in either case stored as the long ones; on a store at       *)
(* capacity it adds nothing, leaves the file as it was and exits 1.        *)
(* normalize_priority is idempotent on every value -p accepts.             *)
C31_AddCommand ==
  [][last'.op = "a" =>
       LET S == StoreOf(file, now)
       IN /\ IF S.available_ids = EmptyBag
               THEN /\ last'.ret[1].exit = 1
                    /\ DOMAIN todos' = DOMAIN S.todos
                    /\ Kept(S, DOMAIN S.todos, {})
                    /\ file' = file
               ELSE /\ last'.ret[1].exit = 0
                    /\ \E k \in DOMAIN todos' : Added(S, k)
                    /\ Persisted(file', todos', objs')
          /\ \A p \in PriorityChoices :
               normalize_priority(normalize_priority(p)) = normalize_priority(p)]_vars

(* a B -f ab on the store of three: the todo is under 3, pending, MEDIUM   *)
C31_Witness ==
  /\ last.op = "a" /\ last.arg[1].priority = NoOption
  /\ last.arg[1].file_path = Some(<<"a", "b">>)
  /\ last.ret[1].exit = 0
  /\ DOMAIN todos = {Str(0), Str(1), Str(2), Str(3)}
  /\ objs[todos[Str(3)]].description = "B"
  /\ objs[todos[Str(3)]].file_path = Some(<<"a", "b">>)
  /\ objs[todos[Str(3)]].priority = "MEDIUM"
  /\ objs[todos[Str(3)]].status = "PENDING"

(* C32: l lists exactly the todos filter returns for the status and path   *)
(* chosen, HIGH before MEDIUM before LOW and, within one priority, by the  *)
(* number the id stands for; the store and the file are left as they were. *)
C32_ListSorted ==
  [][last'.op = "l" =>
       LET S == StoreOf(file, now)
           a == last'.arg[1]
           status == IF a.completed THEN Some("COMPLETED")
                     ELSE IF a.pending THEN Some("PENDING") ELSE None
           expect == filter(S.todos, S.objs, status, a.file_path)
           rows == last'.ret[1].rows
           rank(k) == CASE S.objs[S.todos[k]].priority = "HIGH" -> 0
                        [] S.objs[S.todos[k]].priority = "MEDIUM" -> 1
                        [] S.objs[S.todos[k]].priority = "LOW" -> 2
       IN /\ last'.ret[1].exit = 0
          /\ Len(rows) = BagCardinality(expect)
          /\ Range(rows) = {S.objs[r].id : r \in DOMAIN expect}
          /\ \A i, j \in 1..Len(rows) :
               i < j => \/ rank(rows[i]) < rank(rows[j])
                        \/ /\ rank(rows[i]) = rank(rows[j])
                           /\ IntOf(rows[i]) < IntOf(rows[j])
          /\ last'.ret[1].log = <<>>
          /\ file' = file
          /\ DOMAIN todos' = DOMAIN S.todos
          /\ Kept(S, DOMAIN S.todos, {})
          /\ available_ids' = S.available_ids]_vars

(* l on the file with the ids 1, 2 and 10, where 1 is HIGH and 2 and 10    *)
(* are LOW: the rows are 1, 2, 10                                          *)
C32_Witness ==
  /\ last.op = "l" /\ ~last.arg[1].completed /\ ~last.arg[1].pending
  /\ last.arg[1].file_path = None
  /\ last.ret[1].rows = <<Str(1), Str(2), Str(10)>>
  /\ objs[todos[Str(2)]].priority = "LOW"
  /\ objs[todos[Str(10)]].priority = "LOW"

(* C33: in every state every entry is stored under its own id: for each    *)
(* key k of todos, todos[k].id = k, whatever references the caller passes. *)
C33_StoredUnderOwnId ==
  StoreExists => \A k \in DOMAIN todos : objs[todos[k]].id = k

(* C34: a persist that fails leaves the document persisted before intact:  *)
(* after a mutating call whose write failed the file is what it was.       *)
C34_FailedSaveKeepsFile ==
  [][(last'.op \in Mutators /\ last'.io \in IOOutcomes \ {"ok"}) =>
       file' = file]_vars

(* C35: the count e <ids> reports is the number of todos it removed, and   *)
(* the count c <ids> and p <ids> report is the number of todos they        *)
(* switched, also when an id is named more than once.                      *)
C35_CountsDistinct ==
  [][LET S == StoreOf(file, now)
         a == last'.arg[1]
         found == Range(a.todo_ids) \cap DOMAIN S.todos
     IN /\ (last'.op \in {"c", "p"} /\ ~a.all /\ a.todo_ids # <<>>) =>
             last'.ret[1].count = Cardinality(found)
        /\ (last'.op = "e" /\ a.todo_ids # <<>>) =>
             last'.ret[1].count
               = Cardinality(DOMAIN S.todos \ DOMAIN todos')]_vars

(* C36: constructing a TodoStore never writes the file, whatever it holds  *)
(* (nothing, no bytes, a document, malformed text); nor does any step that *)
(* is not a mutating call that reaches _save. A mutating call whose write  *)
(* succeeds replaces the file with the collection in memory alone.         *)
C36_ConstructionNeverWrites ==
  [][/\ last'.op = "__init__" => file' = file
     /\ (last'.op \notin Mutators \/ last'.io = "none") => file' = file
     /\ (last'.op \in Mutators /\ last'.io = "ok") =>
          /\ file'.kind = "doc"
          /\ DOMAIN file'.data = DOMAIN todos'
          /\ \A k \in DOMAIN todos' : file'.data[k] = to_dict(objs'[todos'[k]])]_vars

(* A store constructed by a later process on a malformed file: the file is *)
(* still the malformed one and the store is empty                          *)
C36_Witness ==
  /\ calls > 0 /\ last.op = "__init__" /\ last.raised = ""
  /\ file = MalformedFile
  /\ DOMAIN todos = {}

(* C37: m <ids> without -p sets the priority of every named todo that      *)
(* exists to MEDIUM, whatever it was, and the file holds it so.            *)
C37_ModifyDefaultsToMedium ==
  [][(last'.op = "m" /\ last'.arg[1].priority = NoOption
        /\ ~last'.arg[1].all /\ last'.arg[1].todo_ids # <<>>) =>
       LET S == StoreOf(file, now)
           found == Range(last'.arg[1].todo_ids) \cap DOMAIN S.todos
       IN /\ \A k \in found :
               /\ objs'[todos'[k]].priority = "MEDIUM"
               /\ file'.data[k].priority = "medium"
          /\ Persisted(file', todos', objs')]_vars

(* m 1 without -p on the store of three, where 1 was HIGH: it is MEDIUM in *)
(* memory and in the file                                                  *)
C37_Witness ==
  /\ last.op = "m" /\ last.arg[1].priority = NoOption
  /\ last.arg[1].todo_ids = <<Str(1)>> /\ ~last.arg[1].all
  /\ last.ret[1].exit = 0 /\ last.ret[1].count = 1
  /\ calls = 1
  /\ objs[todos[Str(1)]].priority = "MEDIUM"
  /\ file.data[Str(1)].priority = "medium"
  /\ file.data[Str(1)].description = "B"

(* C38: the heap of free ids never holds an integer twice nor one outside  *)
(* 0..99, and len(available_ids) + len(todos) = 100 in every state.        *)
C38_HeapIsSet ==
  StoreExists =>
    /\ \A x \in BagToSet(available_ids) : CopiesIn(x, available_ids) = 1
    /\ BagToSet(available_ids) \subseteq AllIds
    /\ HeapLen(available_ids) + Live(todos) = NumIds

(* A store of three after remove("1"): two entries, 98 free ids, 1 among   *)
(* them once                                                               *)
C38_Witness ==
  /\ last.op = "remove" /\ last.arg = Some(Str(1)) /\ last.ret = Some(True)
  /\ Live(todos) = 2
  /\ HeapLen(available_ids) = 98
  /\ CopiesIn(1, available_ids) = 1

====
